---- MODULE Spec2Model ----
(***************************************************************************)
(* Krist: session tokens, websocket registry and event broadcast, and the  *)
(* balance-mutating ledger operations (transfers and name purchases).      *)
(*                                                                         *)
(* Six specifications share the variables:                                 *)
(*   SpecLedger   Transactions.pushTransaction / createTransaction         *)
(*   SpecNames    name purchase around Names.createName                    *)
(*   SpecSession  POST /ws/start, the websocket route, tokens and clock    *)
(*   SpecEvents   subscriptions and broadcast                              *)
(*   SpecBroadcast name purchases broadcast to two connections             *)
(*   SpecErrors   Utils.errorToJSON, sendErrorToRes, sendErrorToWS         *)
(***************************************************************************)
EXTENDS Integers, Sequences, FiniteSets, TLC

VARIABLES
    addressRows,      \* table `addresses`: sequence of rows, index = row id
    transactionRows,  \* table `transactions`: sequence of rows, index = id
    webhookCalls,     \* transaction ids handed to webhooks.callTransactionWebhooks
    emitted,          \* events handed to the broadcaster by ledger operations
    calls,            \* in-flight pushTransaction calls
    dbFailures,       \* number of persistence operations that have rejected
    nameRows,         \* table `names`: sequence of rows
    purchases,        \* in-flight name purchases
    namesPurchased,   \* promNamesPurchasedCounter
    now,                    \* the clock, in seconds
    validConnectionTokens,  \* the Credential Store
    issued,                 \* number of tokens issued so far
    issuedAt,               \* per token, when it was issued (-1: not yet)
    websockets,             \* the Connection Registry: set of entries
    sockets,                \* every socket's state and what was sent on it
    response,               \* the last response of POST /ws/start
    errorIn,                \* the error handed to the error serialiser
    errorOut,               \* what the serialiser returned or delivered
    useCount,               \* per token, the number of successful useToken calls
    lastConsume,            \* the last useToken call and its outcome
    delivered               \* the last broadcast event and who it was sent to

ledgerVars == <<addressRows, transactionRows, webhookCalls, emitted, calls, dbFailures>>
nameVars == <<nameRows, purchases, namesPurchased>>

wsVars == <<now, validConnectionTokens, issued, issuedAt, websockets, sockets, response,
            useCount, lastConsume, delivered>>

errVars == <<errorIn, errorOut>>

vars == <<addressRows, transactionRows, webhookCalls, emitted, calls, dbFailures,
          nameRows, purchases, namesPurchased,
          now, validConnectionTokens, issued, issuedAt, websockets, sockets, response,
          useCount, lastConsume, delivered, errorIn, errorOut>>

----------------------------------------------------------------------------
(* Bounds *)

MaxAmount == 2       \* transfer amounts are 1..MaxAmount
InitBalance == 2     \* balance of the richest account at start
MaxDbFailures == 1   \* persistence operations that may reject in one run
nameCost == 1        \* constants.nameCost, scaled to the model's balances
MaxTokens == 2       \* tokens POST /ws/start may issue
MaxTime == 45        \* the clock stops here
ClockStep == 15      \* seconds per tick of the clock

\* Two pushTransaction calls, enough for every pairwise interleaving.
CallIds == {1, 2}
Amounts == 1..MaxAmount

\* Krist addresses as the routes hand them to the ledger (lower case).
Addresses == {"ka", "kb", "kc"}

----------------------------------------------------------------------------
(* Persistence helpers *)

\* String.prototype.toLowerCase on the address alphabet.
ToLowerCase(s) ==
    CASE s = "KA" -> "ka"
      [] s = "KB" -> "kb"
      [] s = "KC" -> "kc"
      [] OTHER -> s

\* addresses.getAddress: the first row with this address, 0 for null.
GetAddress(rows, address) ==
    IF \E i \in 1..Len(rows) : rows[i].address = address
    THEN CHOOSE i \in 1..Len(rows) :
            /\ rows[i].address = address
            /\ \A j \in 1..(i - 1) : rows[j].address # address
    ELSE 0

SenderDecrementWrongColumn(rows, sender, amount) ==
    [rows EXCEPT ![sender].totalout = @ - amount]

\* sender.decrement({ balance: amount })
SenderDecrement(rows, sender, amount) ==
    [rows EXCEPT ![sender].balance = @ - amount]

\* sender.increment({ totalout: amount })
SenderIncrement(rows, sender, amount) ==
    [rows EXCEPT ![sender].totalout = @ + amount]

\* recipient.increment({ balance: amount, totalout: amount })
RecipientIncrement(rows, recipient, amount) ==
    [rows EXCEPT ![recipient].balance = @ + amount,
                 ![recipient].totalout = @ + amount]

\* schemas.address.create({ address: recipientAddress.toLowerCase(), ... })
AddressCreate(rows, recipientAddress, amount) ==
    Append(rows, [address |-> ToLowerCase(recipientAddress),
                  balance |-> amount,
                  totalin |-> amount,
                  totalout |-> 0])

\* The row schemas.transaction.create builds in createTransaction.
TransactionRow(id, to, from, value, name, op) ==
    [id |-> id, to |-> to, from |-> from, value |-> value, name |-> name, op |-> op]

\* The four promises pushTransaction pushes, in the order of the array.
Ops == {"decrement", "increment", "createTransaction", "credit"}

IdleCall ==
    [pc |-> "idle", sender |-> 0, to |-> "", amount |-> 0, recipient |-> 0,
     pending |-> {}, failed |-> {}, result |-> 0,
     pre |-> <<>>, overlapped |-> FALSE]

\* A call whose persistence operations can still touch the tables.
InFlight(c) == calls[c].pc \in {"lookup", "running"} \/ calls[c].pending # {}

----------------------------------------------------------------------------
(* Transactions.pushTransaction *)

\* pushTransaction(sender, recipientAddress, amount, metadata) is called:
\* the promise is created and addresses.getAddress is issued.  The call id
\* is passed as the metadata.
PushTransaction(c, sender, recipientAddress, amount) ==
    /\ calls[c].pc = "idle"
    /\ \A d \in 1..(c - 1) : calls[d].pc # "idle"
    /\ sender \in 1..Len(addressRows)
    /\ LET busy == \E d \in CallIds : InFlight(d)
       IN calls' = [d \in CallIds |->
                      IF d = c
                      THEN [IdleCall EXCEPT !.pc = "lookup", !.sender = sender,
                                            !.to = recipientAddress, !.amount = amount,
                                            !.pre = addressRows, !.overlapped = busy]
                      ELSE IF InFlight(d)
                           THEN [calls[d] EXCEPT !.overlapped = TRUE]
                           ELSE calls[d]]
    /\ UNCHANGED <<addressRows, transactionRows, webhookCalls, emitted, dbFailures, nameVars, wsVars, errVars>>

\* getAddress resolves: the four operations are issued (lines 239-256).
LookupResolves(c) ==
    /\ calls[c].pc = "lookup"
    /\ calls' = [calls EXCEPT ![c].pc = "running",
                              ![c].recipient = GetAddress(addressRows, calls[c].to),
                              ![c].pending = Ops]
    /\ UNCHANGED <<addressRows, transactionRows, webhookCalls, emitted, dbFailures, nameVars, wsVars, errVars>>

\* getAddress rejects: the .then has no rejection handler, the promise of
\* pushTransaction never settles.
LookupRejects(c) ==
    /\ calls[c].pc = "lookup"
    /\ dbFailures < MaxDbFailures
    /\ dbFailures' = dbFailures + 1
    /\ calls' = [calls EXCEPT ![c].pc = "hung"]
    /\ UNCHANGED <<addressRows, transactionRows, webhookCalls, emitted, nameVars, wsVars, errVars>>

\* The `transaction` event broadcast for the record of a resolved transfer
\* (section 4.4 step 4; the broadcasting caller is outside this source).
TransactionEvent(c, txId) ==
    [event |-> "transaction", call |-> c, transaction |-> txId]

\* Promise.all after operation op of call c has fulfilled: resolve(results[2])
\* once all four have.
AfterFulfil(c, op, txId) ==
    LET left == calls[c].pending \ {op}
        res == IF op = "createTransaction" THEN txId ELSE calls[c].result
    IN IF left = {} /\ calls[c].pc = "running"
       THEN /\ calls' = [calls EXCEPT ![c].pending = left, ![c].result = res,
                                       ![c].pc = "resolved"]
            /\ emitted' = Append(emitted, TransactionEvent(c, res))
       ELSE /\ calls' = [calls EXCEPT ![c].pending = left, ![c].result = res]
            /\ UNCHANGED emitted

\* Promise.all after operation op of call c has rejected: .catch(reject).
AfterReject(c, op) ==
    calls' = [calls EXCEPT ![c].pending = @ \ {op},
                           ![c].failed = @ \cup {op},
                           ![c].pc = IF @ = "running" THEN "rejected" ELSE @]

\* One of the four persistence operations of call c runs and fulfils.
OpFulfils(c, op) ==
    /\ op \in calls[c].pending
    /\ LET call == calls[c]
           txId == Len(transactionRows) + 1
       IN /\ addressRows' =
                CASE op = "decrement" -> SenderDecrement(addressRows, call.sender, call.amount)
                  [] op = "increment" -> SenderIncrement(addressRows, call.sender, call.amount)
                  [] op = "credit" ->
                        IF call.recipient = 0
                        THEN AddressCreate(addressRows, call.to, call.amount)
                        ELSE RecipientIncrement(addressRows, call.recipient, call.amount)
                  [] OTHER -> addressRows
          /\ IF op = "createTransaction"
             THEN /\ transactionRows' =
                        Append(transactionRows,
                               TransactionRow(txId, call.to, addressRows[call.sender].address,
                                              call.amount, "", c))
                  /\ webhookCalls' = Append(webhookCalls, txId)
             ELSE UNCHANGED <<transactionRows, webhookCalls>>
          /\ AfterFulfil(c, op, txId)
    /\ UNCHANGED <<dbFailures, nameVars, wsVars, errVars>>

\* One of the four persistence operations of call c rejects.
OpRejects(c, op) ==
    /\ op \in calls[c].pending
    /\ dbFailures < MaxDbFailures
    /\ dbFailures' = dbFailures + 1
    /\ AfterReject(c, op)
    /\ UNCHANGED <<addressRows, transactionRows, webhookCalls, emitted, nameVars, wsVars, errVars>>

----------------------------------------------------------------------------
(* Errors and responses *)

\* this.info = {}
EmptyInfo == [key \in {} |-> ""]

\* new errors.KristError(message), specialised by errorString.
KristError(errorString, message) ==
    [krist |-> TRUE, errorString |-> errorString, message |-> message, statusCode |-> 500,
     info |-> EmptyInfo]

\* An error that is not a KristError.
OtherError(message) ==
    [krist |-> FALSE, errorString |-> "", message |-> message, statusCode |-> 0,
     info |-> EmptyInfo]

errorToJSONLeaky(error) ==
    IF error.krist
    THEN IF error.message # ""
         THEN [threw |-> "ReferenceError"]
         ELSE error.info @@ [ok |-> FALSE, error |-> error.errorString]
    ELSE [ok |-> FALSE, error |-> "server_error", message |-> error.message]

\* Utils.errorToJSON: `out.message = message` reads an undeclared variable
\* and throws a ReferenceError when error.message is set; otherwise every
\* key of error.info is assigned into { ok: false, error: errorString }.
errorToJSON(error) ==
    IF error.krist
    THEN IF error.message # ""
         THEN [threw |-> "ReferenceError"]
         ELSE error.info @@ [ok |-> FALSE, error |-> error.errorString]
    ELSE [ok |-> FALSE, error |-> "server_error"]

Threw(body) == "threw" \in DOMAIN body

\* The value of req.query.cc: undefined when the request has no `cc`
\* parameter, otherwise the string the parameter carries.
Undefined == [type |-> "undefined"]
Str(value) == [type |-> "string", value |-> value]
CcValues == {Undefined, Str("1"), Str("undefined")}

\* Utils.sendErrorToRes: the status and the body handed to res; cc is
\* compared with the string 'undefined', not with the undefined value.
sendErrorToRes(cc, error) ==
    LET errorCode == IF error.statusCode # 0 THEN error.statusCode ELSE 500
        status == IF cc # Str("undefined") THEN 200 ELSE errorCode
        body == errorToJSON(error)
    IN IF Threw(body) THEN body ELSE [status |-> status, body |-> body]

\* Utils.sendErrorToWS: the message written to the socket.
sendErrorToWS(error) ==
    LET body == errorToJSON(error)
    IN IF Threw(body) THEN body ELSE [body |-> body]

\* The errors the serialiser is applied to: KristErrors of two kinds, with
\* and without a message and an info map, and errors of other classes that
\* carry the same fields as internal detail.
Messages == {"", "Name already taken", "ECONNREFUSED 127.0.0.1:3306"}
Infos == {EmptyInfo, [parameter |-> "name"], [parameter |-> "to", limit |-> "50"]}

KristErrors ==
    {[krist |-> TRUE, errorString |-> e, message |-> m, statusCode |-> sc, info |-> i] :
        e \in {"unknown_error", "name_taken"}, m \in Messages, sc \in {400, 500}, i \in Infos}

OtherErrors ==
    {[krist |-> FALSE, errorString |-> e, message |-> m, statusCode |-> sc, info |-> i] :
        e \in {"", "name_taken"}, m \in Messages, sc \in {0, 404}, i \in Infos}

NotSerialised == [via |-> "none"]

ErrorToJSON ==
    /\ errorOut = NotSerialised
    /\ errorOut' = [via |-> "errorToJSON", result |-> errorToJSON(errorIn)]
    /\ UNCHANGED <<errorIn, ledgerVars, nameVars, wsVars>>

SendErrorToRes(cc) ==
    /\ errorOut = NotSerialised
    /\ errorOut' = [via |-> "res", cc |-> cc, result |-> sendErrorToRes(cc, errorIn)]
    /\ UNCHANGED <<errorIn, ledgerVars, nameVars, wsVars>>

SendErrorToWS ==
    /\ errorOut = NotSerialised
    /\ errorOut' = [via |-> "ws", result |-> sendErrorToWS(errorIn)]
    /\ UNCHANGED <<errorIn, ledgerVars, nameVars, wsVars>>

\* Outside the serialiser's own specification no error is pending.
InitErr ==
    /\ errorIn = KristError("unknown_error", "")
    /\ errorOut = NotSerialised

InitErrors ==
    /\ errorIn \in KristErrors \cup OtherErrors
    /\ errorOut = NotSerialised

NextErrors ==
    \/ ErrorToJSON
    \/ \E cc \in CcValues : SendErrorToRes(cc)
    \/ SendErrorToWS

----------------------------------------------------------------------------
(* Credential Store *)

TokenTTL == 30

TokenIds == 1..MaxTokens
Sockets == {"s1", "s2"}
Keys == {"pk1"}

\* krist.makeV2Address
makeV2Address(privatekey) == IF privatekey = "pk1" THEN "ka" ELSE "kb"

NoToken == [stored |-> FALSE, address |-> "", privatekey |-> "", expiresAt |-> 0]

\* websockets.obtainToken: the entry stored for a fresh token.
obtainToken(address, privatekey) ==
    [stored |-> TRUE, address |-> address, privatekey |-> privatekey,
     expiresAt |-> now + TokenTTL]

\* Token t was issued more than TokenTTL seconds ago.
Late(t) == issuedAt[t] >= 0 /\ now > issuedAt[t] + TokenTTL

Expired(t) == validConnectionTokens[t].stored /\ now > validConnectionTokens[t].expiresAt

\* websockets.useToken: what the call does, "ok" when it returns.
useToken(t) ==
    IF ~validConnectionTokens[t].stored THEN "TokenNotFound"
    ELSE IF Expired(t) THEN "TokenExpired"
    ELSE "ok"

\* websockets.useToken: the store after the call; the entry is removed when
\* it is returned and purged when it has expired.
StoreAfterUse(t) == [validConnectionTokens EXCEPT ![t] = NoToken]

\* The background sweep of expired entries.
Sweep ==
    /\ \E t \in TokenIds : Expired(t)
    /\ validConnectionTokens' =
          [t \in TokenIds |-> IF Expired(t) THEN NoToken ELSE validConnectionTokens[t]]
    /\ UNCHANGED <<now, issued, issuedAt, websockets, sockets, response, useCount, lastConsume,
                   delivered, ledgerVars, nameVars, errVars>>

\* Time passes.
Tick ==
    /\ now + ClockStep <= MaxTime
    /\ now' = now + ClockStep
    /\ UNCHANGED <<validConnectionTokens, issued, issuedAt, websockets, sockets, response, useCount,
                   lastConsume, delivered, ledgerVars, nameVars, errVars>>

AuthNeverRejected(privatekey, authed) == FALSE

\* The guard of app.post("/ws/start"): a supplied privatekey that
\* addresses.verify did not accept.
AuthRejected(privatekey, authed) == privatekey # "" /\ ~authed

\* app.post("/ws/start"): privatekey is "" when the body has none, authed is
\* the verdict of addresses.verify, cc the `cc` query parameter.
StartSession(privatekey, authed, cc) ==
    /\ issued < MaxTokens
    /\ IF AuthRejected(privatekey, authed)
       THEN /\ response' = sendErrorToRes(cc, KristError("auth_failed", ""))
            /\ UNCHANGED <<validConnectionTokens, issued, issuedAt>>
       ELSE LET token == issued + 1
                address == IF privatekey # "" THEN makeV2Address(privatekey) ELSE "guest"
            IN /\ validConnectionTokens' =
                     [validConnectionTokens EXCEPT ![token] = obtainToken(address, privatekey)]
               /\ issued' = token
               /\ issuedAt' = [issuedAt EXCEPT ![token] = now]
               /\ response' = [status |-> 200,
                               body |-> [ok |-> TRUE, url |-> token, expires |-> 30]]
    /\ UNCHANGED <<now, websockets, sockets, useCount, lastConsume, delivered,
                   ledgerVars, nameVars, errVars>>

----------------------------------------------------------------------------
(* Connection Registry *)

\* The subscription table of the websocket documentation: the event each
\* subscription level delivers.
SubscriptionEvent ==
    [blocks |-> "block", ownBlocks |-> "block",
     transactions |-> "transaction", ownTransactions |-> "transaction",
     names |-> "name", ownNames |-> "name",
     motd |-> "motd"]

Categories == DOMAIN SubscriptionEvent
OwnCategories == {"ownBlocks", "ownTransactions", "ownNames"}

\* The subscriptions of a new Connection Entry: the public categories.
DefaultSubscriptions == Categories \ OwnCategories

\* websockets.addWebsocket: the entry added to the registry.
addWebsocket(ws, token, address, privatekey) ==
    [ws |-> ws, token |-> token, address |-> address, privatekey |-> privatekey,
     subs |-> DefaultSubscriptions]

removeWebsocketSplice(registry, ws) ==
    IF \E e \in registry : e.ws = ws
    THEN {e \in registry : e.ws # ws}
    ELSE IF registry = {} THEN {} ELSE registry \ {CHOOSE e \in registry : TRUE}

\* websockets.removeWebsocket
removeWebsocket(registry, ws) == {e \in registry : e.ws # ws}

NewSocket ==
    [readyState |-> "NEW", pc |-> "none", token |-> 0, first |-> "", hello |-> 0,
     error |-> ""]

\* What a message is to a socket that may not have received any yet.
Sent(socket, kind) == [socket EXCEPT !.first = IF @ = "" THEN kind ELSE @]

RegistersAlways(result) == TRUE

RegistersUnlessNotFound(result) == result # "TokenNotFound"

\* The try block of the route: addWebsocket runs only when useToken returned.
Registers(result) == result = "ok"

CaughtWithoutSend(ws, socket, error, registry) ==
    IF socket.readyState = "OPEN"
    THEN <<[socket EXCEPT !.readyState = "CLOSED", !.pc = "done"], registry>>
    ELSE <<[socket EXCEPT !.pc = "done"], removeWebsocket(registry, ws)>>

\* The catch block of the route: the socket and the registry after `error`
\* was thrown in the handler of ws.
Caught(ws, socket, error, registry) ==
    IF socket.readyState = "OPEN"
    THEN LET body == errorToJSON(error)
         IN IF Threw(body)
            THEN <<[socket EXCEPT !.pc = "done"], registry>>
            ELSE <<[Sent(socket, "error") EXCEPT !.readyState = "CLOSED", !.pc = "done",
                                                  !.error = body.error],
                   registry>>
    ELSE <<[socket EXCEPT !.pc = "done"], removeWebsocket(registry, ws)>>

\* app.ws("/:token") up to the await: a client connects socket ws with
\* token t; readyState is the socket's state when the handler runs.
WsConnect(ws, t, readyState) ==
    /\ sockets[ws].readyState = "NEW"
    /\ LET result == useToken(t)
           data == validConnectionTokens[t]
           socket == [sockets[ws] EXCEPT !.readyState = readyState]
       IN /\ validConnectionTokens' =
                IF data.stored THEN StoreAfterUse(t) ELSE validConnectionTokens
          /\ useCount' = [useCount EXCEPT ![t] = IF result = "ok" THEN @ + 1 ELSE @]
          /\ lastConsume' = [token |-> t, result |-> result, before |-> useCount[t],
                             late |-> Late(t), stored |-> data.stored,
                             registered |-> Registers(result),
                             open |-> readyState = "OPEN"]
          /\ IF Registers(result)
             THEN /\ websockets' = websockets \cup
                                     {addWebsocket(ws, t, data.address, data.privatekey)}
                  /\ sockets' = [sockets EXCEPT ![ws] = [socket EXCEPT !.pc = "motd",
                                                                       !.token = t]]
             ELSE LET after == Caught(ws, socket, KristError(result, ""), websockets)
                  IN /\ sockets' = [sockets EXCEPT ![ws] = after[1]]
                     /\ websockets' = after[2]
    /\ UNCHANGED <<now, issued, issuedAt, response, delivered, ledgerVars, nameVars, errVars>>

\* app.ws("/:token") after the await: motd.getDetailedMOTD has settled and
\* the hello message is sent.
WsHello(ws, motdOk) ==
    /\ sockets[ws].pc = "motd"
    /\ IF motdOk /\ sockets[ws].readyState = "OPEN"
       THEN /\ sockets' = [sockets EXCEPT ![ws] = [Sent(@, "hello") EXCEPT !.pc = "done",
                                                                            !.hello = @ + 1]]
            /\ UNCHANGED websockets
       ELSE LET after == Caught(ws, sockets[ws], OtherError("motd"), websockets)
            IN /\ sockets' = [sockets EXCEPT ![ws] = after[1]]
               /\ websockets' = after[2]
    /\ UNCHANGED <<now, validConnectionTokens, issued, issuedAt, response, useCount, lastConsume,
                   delivered, ledgerVars, nameVars, errVars>>

\* The client closes its socket.
ClientCloses(ws) ==
    /\ sockets[ws].readyState = "OPEN"
    /\ sockets' = [sockets EXCEPT ![ws].readyState = "CLOSED"]
    /\ UNCHANGED <<now, validConnectionTokens, issued, issuedAt, websockets, response, useCount,
                   lastConsume, delivered, ledgerVars, nameVars, errVars>>

\* The close event of a socket: its entry is deregistered.
CloseEvent(ws) ==
    /\ sockets[ws].readyState = "CLOSED"
    /\ \E e \in websockets : e.ws = ws
    /\ websockets' = removeWebsocket(websockets, ws)
    /\ UNCHANGED <<now, validConnectionTokens, issued, issuedAt, sockets, response, useCount,
                   lastConsume, delivered, ledgerVars, nameVars, errVars>>

\* setSubscription(ws, category, enabled) from a subscribe or unsubscribe
\* message; an unknown category or an own* category on a guest entry changes
\* nothing.
SetSubscription(ws, category, enabled) ==
    /\ sockets[ws].readyState = "OPEN"
    /\ \E e \in websockets :
          /\ e.ws = ws
          /\ category \in Categories
          /\ category \in OwnCategories => e.address # "guest"
          /\ websockets' = (websockets \ {e}) \cup
                {[e EXCEPT !.subs = IF enabled THEN @ \cup {category} ELSE @ \ {category}]}
    /\ UNCHANGED <<now, validConnectionTokens, issued, issuedAt, sockets, response, useCount,
                   lastConsume, delivered, ledgerVars, nameVars, errVars>>

----------------------------------------------------------------------------
(* Event Broadcaster *)

\* The events the ledger broadcasts, with the addresses they concern.
Events ==
    [event : {"transaction"}, from : Addresses, to : Addresses]
    \cup [event : {"block"}, address : Addresses]
    \cup [event : {"name"}, owner : Addresses]
    \cup {[event |-> "motd"]}

OwnMatchesSenderOnly(address, ev) ==
    CASE ev.event = "transaction" -> ev.from = address
      [] ev.event = "block" -> ev.address = address
      [] ev.event = "name" -> ev.owner = address
      [] OTHER -> FALSE

\* The own* rows of the subscription table: the event concerns the authed
\* user (a transaction made to or from them, a block they mined, their name).
OwnMatches(address, ev) ==
    CASE ev.event = "transaction" -> ev.from = address \/ ev.to = address
      [] ev.event = "block" -> ev.address = address
      [] ev.event = "name" -> ev.owner = address
      [] OTHER -> FALSE

\* Whether entry e is subscribed to event ev.
Subscribed(e, ev) ==
    \E category \in e.subs :
        /\ SubscriptionEvent[category] = ev.event
        /\ category \in OwnCategories => e.address # "guest" /\ OwnMatches(e.address, ev)

\* The sockets of the entries subscribed to ev: the writes a broadcast
\* attempts.
Recipients(ev) == {e.ws : e \in {x \in websockets : Subscribed(x, ev)}}

WrittenUntilFailure(targets) ==
    IF \E ws \in targets : sockets[ws].readyState # "OPEN" THEN {} ELSE targets

\* The writes that succeed: a write to a socket that is not open fails, and
\* a failed write affects no other write.
Written(targets) == {ws \in targets : sockets[ws].readyState = "OPEN"}

\* websockets.broadcastEvent(ev): ev is written to the socket of every
\* subscribed entry; the call returns whether or not a write failed.
broadcastEvent(ev) ==
    LET to == Written(Recipients(ev))
    IN /\ sockets' = [ws \in Sockets |->
                        IF ws \in to THEN Sent(sockets[ws], "event") ELSE sockets[ws]]
       /\ delivered' = [event |-> ev, to |-> to, failed |-> Recipients(ev) \ to]

\* broadcast(event) for an event of the ledger.
Broadcast(ev) ==
    /\ broadcastEvent(ev)
    /\ UNCHANGED <<now, validConnectionTokens, issued, issuedAt, websockets, response, useCount,
                      lastConsume, ledgerVars, nameVars, errVars>>

\* The keepalive tick: a keepalive message to every live entry.
Keepalive ==
    LET to == {e.ws : e \in {x \in websockets : sockets[x.ws].readyState = "OPEN"}}
    IN /\ sockets' = [ws \in Sockets |->
                        IF ws \in to THEN Sent(sockets[ws], "keepalive") ELSE sockets[ws]]
       /\ UNCHANGED <<now, validConnectionTokens, issued, issuedAt, websockets, response, useCount,
                      lastConsume, delivered, ledgerVars, nameVars, errVars>>

InitWs ==
    /\ now = 0
    /\ validConnectionTokens = [t \in TokenIds |-> NoToken]
    /\ issued = 0
    /\ issuedAt = [t \in TokenIds |-> -1]
    /\ websockets = {}
    /\ sockets = [ws \in Sockets |-> NewSocket]
    /\ response = [status |-> 0]
    /\ useCount = [t \in TokenIds |-> 0]
    /\ lastConsume = [token |-> 0]
    /\ delivered = [event |-> [event |-> "none"], to |-> {}, failed |-> {}]

NextSession ==
    \/ \E k \in Keys \cup {""}, authed \in BOOLEAN, cc \in CcValues :
          StartSession(k, authed, cc)
    \/ Tick
    \/ Sweep
    \/ \E ws \in Sockets, t \in TokenIds, rs \in {"OPEN", "CLOSED"} : WsConnect(ws, t, rs)
    \/ \E ws \in Sockets, ok \in BOOLEAN : WsHello(ws, ok)
    \/ \E ws \in Sockets : ClientCloses(ws)
    \/ \E ws \in Sockets : CloseEvent(ws)
    \/ Keepalive

\* The subscription claims concern one connection at a time: one client
\* connects, changes its subscriptions and is broadcast to.
EventSockets == {"s1"}

NextEvents ==
    \/ \E k \in Keys \cup {""}, authed \in BOOLEAN : StartSession(k, authed, Undefined)
    \/ \E ws \in EventSockets, t \in TokenIds : WsConnect(ws, t, "OPEN")
    \/ \E ws \in EventSockets, ok \in BOOLEAN : WsHello(ws, ok)
    \/ \E ws \in EventSockets, c \in Categories \cup {"bogus"}, on \in BOOLEAN :
          SetSubscription(ws, c, on)
    \/ \E ev \in Events : Broadcast(ev)
    \/ \E ws \in EventSockets : ClientCloses(ws)
    \/ \E ws \in EventSockets : CloseEvent(ws)

----------------------------------------------------------------------------
(* Names *)

PurchaseIds == {1, 2}
Names == {"abc", "xyz"}

\* Names.getNameCost
getNameCost == nameCost

NameRowUnpaidZero(name, owner) ==
    [name |-> name, owner |-> owner, original_owner |-> owner,
     transferred |-> "null", unpaid |-> 0]

\* The row Names.createName hands to schemas.name.create.
NameRow(name, owner) ==
    [name |-> name, owner |-> owner, original_owner |-> owner,
     transferred |-> "null", unpaid |-> getNameCost]

\* Names.nameToJSON
nameToJSON(name) ==
    [name |-> name.name, owner |-> name.owner, original_owner |-> name.original_owner,
     transferred |-> name.transferred,
     unpaid |-> IF name.unpaid = 0 THEN 0 ELSE name.unpaid]

BalanceOf(rows, address) ==
    LET i == GetAddress(rows, address)
    IN IF i = 0 THEN 0 ELSE rows[i].balance

BalanceOfOwner(owner) == BalanceOf(addressRows, owner)

\* The uniqueness constraint on names.name (section 5).
NameExists(rows, name) == \E i \in 1..Len(rows) : rows[i].name = name

\* The debit of the owner's account by the registration cost (section 4.4).
PurchaseDebit(rows, owner, cost) ==
    [rows EXCEPT ![GetAddress(rows, owner)].balance = @ - cost]

\* Why schemas.name.create cannot insert, "" when it can (sections 4.4, 7).
PurchaseError(name, owner) ==
    IF NameExists(nameRows, name) THEN "NameTaken"
    ELSE IF BalanceOfOwner(owner) < getNameCost THEN "InsufficientFunds"
    ELSE ""

AlwaysResolved(error) == "resolved"

\* `await schemas.name.create(...)`: createName rejects when the create does.
CreateNameSettles(error) == IF error = "" THEN "resolved" ELSE "rejected"

IdlePurchase ==
    [pc |-> "idle", name |-> "", owner |-> "", error |-> "", row |-> 0,
     concurrent |-> FALSE]

\* purchaseName(name, owner) is called and schemas.name.create is issued.
PurchaseName(p, name, owner) ==
    /\ purchases[p].pc = "idle"
    /\ \A q \in 1..(p - 1) : purchases[q].pc # "idle"
    /\ GetAddress(addressRows, owner) # 0
    /\ LET busy == \E q \in PurchaseIds : purchases[q].pc = "create"
       IN purchases' = [q \in PurchaseIds |->
                          IF q = p
                          THEN [IdlePurchase EXCEPT !.pc = "create", !.name = name,
                                                    !.owner = owner, !.concurrent = busy]
                          ELSE IF purchases[q].pc = "create"
                               THEN [purchases[q] EXCEPT !.concurrent = TRUE]
                               ELSE purchases[q]]
    /\ UNCHANGED <<ledgerVars, nameRows, namesPurchased, wsVars, errVars>>

\* Names.createName after its create has settled with `error` ("" when the
\* row was inserted).
CreateName(p, error) ==
    LET dbName == NameRow(purchases[p].name, purchases[p].owner)
    IN /\ nameRows' = IF error = "" THEN Append(nameRows, dbName) ELSE nameRows
       /\ IF CreateNameSettles(error) = "resolved"
          THEN /\ namesPurchased' = namesPurchased + 1
               /\ emitted' = Append(emitted, [event |-> "name", name |-> nameToJSON(dbName)])
               /\ broadcastEvent([event |-> "name", owner |-> dbName.owner])
               /\ purchases' = [purchases EXCEPT ![p].pc = "resolved",
                                                 ![p].row = Len(nameRows')]
          ELSE /\ UNCHANGED <<namesPurchased, emitted, sockets, delivered>>
               /\ purchases' = [purchases EXCEPT ![p].pc = "rejected", ![p].error = error]

\* The create of purchase p runs: it inserts and the owner is debited, or it
\* rejects on a taken name or an owner without funds.
NameCreateRuns(p) ==
    /\ purchases[p].pc = "create"
    /\ LET error == PurchaseError(purchases[p].name, purchases[p].owner)
       IN /\ CreateName(p, error)
          /\ addressRows' = IF error = ""
                            THEN PurchaseDebit(addressRows, purchases[p].owner, getNameCost)
                            ELSE addressRows
    /\ UNCHANGED <<transactionRows, webhookCalls, calls, dbFailures, errVars,
                   now, validConnectionTokens, issued, issuedAt, websockets, response,
                   useCount, lastConsume>>

\* The create of purchase p rejects for a reason of the store's own.
NameCreateFails(p) ==
    /\ purchases[p].pc = "create"
    /\ dbFailures < MaxDbFailures
    /\ dbFailures' = dbFailures + 1
    /\ CreateName(p, "ServerError")
    /\ UNCHANGED <<addressRows, transactionRows, webhookCalls, calls, errVars,
                   now, validConnectionTokens, issued, issuedAt, websockets, response,
                   useCount, lastConsume>>

InitNames ==
    /\ nameRows = <<>>
    /\ purchases = [p \in PurchaseIds |-> IdlePurchase]
    /\ namesPurchased = 0

NextNames ==
    \/ \E p \in PurchaseIds, n \in Names, o \in Addresses : PurchaseName(p, n, o)
    \/ \E p \in PurchaseIds : NameCreateRuns(p)
    \/ \E p \in PurchaseIds : NameCreateFails(p)

----------------------------------------------------------------------------

InitLedger ==
    /\ addressRows = << [address |-> "ka", balance |-> InitBalance,
                         totalin |-> InitBalance, totalout |-> 0],
                        [address |-> "kb", balance |-> InitBalance - 1,
                         totalin |-> InitBalance - 1, totalout |-> 0] >>
    /\ transactionRows = <<>>
    /\ webhookCalls = <<>>
    /\ emitted = <<>>
    /\ calls = [c \in CallIds |-> IdleCall]
    /\ dbFailures = 0

Init == InitLedger /\ InitNames /\ InitWs /\ InitErr

NextLedger ==
    \/ \E c \in CallIds, s \in 1..Len(addressRows), r \in Addresses, a \in Amounts :
          PushTransaction(c, s, r, a)
    \/ \E c \in CallIds : LookupResolves(c)
    \/ \E c \in CallIds : LookupRejects(c)
    \/ \E c \in CallIds, op \in Ops : OpFulfils(c, op)
    \/ \E c \in CallIds, op \in Ops : OpRejects(c, op)

SpecLedger == Init /\ [][NextLedger]_vars

SpecNames == Init /\ [][NextNames]_vars

SpecSession == Init /\ [][NextSession]_vars

SpecEvents == Init /\ [][NextEvents]_vars

\* Name purchases while two clients connect and go away: the store and the
\* clock are left out, every connection attempt uses a stored token.
NextBroadcast ==
    \/ \E k \in Keys \cup {""} : StartSession(k, TRUE, Undefined)
    \/ \E ws \in Sockets, t \in TokenIds :
          validConnectionTokens[t].stored /\ WsConnect(ws, t, "OPEN")
    \/ \E ws \in Sockets : WsHello(ws, TRUE)
    \/ \E ws \in Sockets : ClientCloses(ws)
    \/ \E ws \in Sockets : CloseEvent(ws)
    \/ \E p \in PurchaseIds, n \in Names : PurchaseName(p, n, "ka")
    \/ \E p \in PurchaseIds : NameCreateRuns(p)

SpecBroadcast == Init /\ [][NextBroadcast]_vars

\* The serialiser is applied to each error of KristErrors and OtherErrors.
InitSerialiser == InitLedger /\ InitNames /\ InitWs /\ InitErrors

SpecErrors == InitSerialiser /\ [][NextErrors]_vars

----------------------------------------------------------------------------
(* Ledger properties *)

SenderAddress(c) == calls[c].pre[calls[c].sender].address
SenderBalanceBefore(c) == calls[c].pre[calls[c].sender].balance
TransactionsOf(c) == {i \in 1..Len(transactionRows) : transactionRows[i].op = c}
WebhooksOf(c) == {k \in 1..Len(webhookCalls) : webhookCalls[k] \in TransactionsOf(c)}
EventsOf(c) == {k \in 1..Len(emitted) : emitted[k].event = "transaction" /\ emitted[k].call = c}

\* The step in which the promise of call c resolves.
Resolves(c) == calls[c].pc = "running" /\ calls'[c].pc = "resolved"

\* C3: for accounts A # B and 0 < v <= balance(A), when transfer(A, B, v)
\* completes without another transfer in flight, balance(A) has decreased by
\* exactly v, balance(B) has increased by exactly v (or B was created with
\* balance v), and balance(A) + balance(B) is unchanged.
C3_TransferMovesValue ==
    [][\A c \in CallIds :
         (/\ Resolves(c)
          /\ ~calls'[c].overlapped
          /\ SenderAddress(c) # calls[c].to
          /\ 0 < calls[c].amount
          /\ calls[c].amount <= SenderBalanceBefore(c))
         => LET A == calls[c].sender
                v == calls[c].amount
                pre == calls[c].pre
                B == GetAddress(pre, calls[c].to)
                B2 == GetAddress(addressRows', calls[c].to)
            IN /\ addressRows'[A].balance = pre[A].balance - v
               /\ IF B # 0
                  THEN addressRows'[B].balance = pre[B].balance + v
                  ELSE B2 # 0 /\ addressRows'[B2].balance = v
               /\ addressRows'[A].balance + BalanceOf(addressRows', calls[c].to)
                    = pre[A].balance + BalanceOf(pre, calls[c].to)
      ]_vars

\* Witness of C3: one transfer to an existing account and one to a new
\* account have both resolved, each run on its own within its funds.
C3_Witness ==
    /\ \A c \in CallIds :
          /\ calls[c].pc = "resolved"
          /\ ~calls[c].overlapped
          /\ SenderAddress(c) # calls[c].to
          /\ calls[c].amount <= SenderBalanceBefore(c)
    /\ GetAddress(calls[1].pre, calls[1].to) # 0
    /\ GetAddress(calls[2].pre, calls[2].to) = 0

\* C4: transfer(A, B, v) with v > balance(A) or v <= 0 fails, leaves the
\* balances and totals unchanged, creates no account and no transaction
\* record.
C4_InsufficientFundsRejected ==
    \A c \in CallIds :
        (/\ calls[c].pc # "idle"
         /\ ~calls[c].overlapped
         /\ \/ calls[c].amount > SenderBalanceBefore(c)
            \/ calls[c].amount <= 0)
        => /\ calls[c].pc # "resolved"
           /\ addressRows = calls[c].pre
           /\ TransactionsOf(c) = {}

\* C5: of N concurrent transfers of v from one sender with N*v above the
\* balance b, exactly b \div v succeed, the final balance is b minus v times
\* the successes, and no balance is ever negative.
C5_NoDoubleSpend ==
    /\ (\A c \in CallIds : calls[c].pc # "idle" => calls[c].amount <= SenderBalanceBefore(c))
          => \A i \in 1..Len(addressRows) : addressRows[i].balance >= 0
    /\ LET v == calls[1].amount
           b == SenderBalanceBefore(1)
           won == {c \in CallIds : calls[c].pc = "resolved"}
       IN (/\ \A c \in CallIds : calls[c].pc \in {"resolved", "rejected"} /\ calls[c].pending = {}
           /\ calls[1].sender = calls[2].sender
           /\ calls[2].amount = v
           /\ calls[2].pre = calls[1].pre
           /\ 2 * v > b
           /\ dbFailures = 0)
          => /\ Cardinality(won) = b \div v
             /\ addressRows[calls[1].sender].balance = b - v * Cardinality(won)

\* C6: when a transfer reports failure, balances and totals equal their
\* values before the transfer and no transaction record exists for it.
C6_FailureLeavesNothingCommitted ==
    \A c \in CallIds :
        (calls[c].pc = "rejected" /\ ~calls[c].overlapped)
        => /\ addressRows = calls[c].pre
           /\ TransactionsOf(c) = {}

\* C9: a successful transfer notifies the webhook collaborator exactly once
\* and broadcasts exactly one transaction event carrying the created record;
\* a failed transfer triggers neither.
C9_NotifiedExactlyOnce ==
    \A c \in CallIds :
        /\ calls[c].pc = "resolved"
             => /\ Cardinality(WebhooksOf(c)) = 1
                /\ Cardinality(EventsOf(c)) = 1
                /\ \A k \in EventsOf(c) : emitted[k].transaction \in TransactionsOf(c)
        /\ calls[c].pc = "rejected"
             => /\ WebhooksOf(c) = {}
                /\ EventsOf(c) = {}

----------------------------------------------------------------------------
(* Name purchase properties *)

Settled(p) == purchases[p].pc \in {"resolved", "rejected"}

\* C7: two purchaseName calls for the same name, under every interleaving,
\* give exactly one success and one NameTaken failure, and no state holds two
\* Name Records with the same name.
C7_OnePurchaseWins ==
    /\ \A i, j \in 1..Len(nameRows) : nameRows[i].name = nameRows[j].name => i = j
    /\ (/\ Settled(1) /\ Settled(2)
        /\ purchases[1].name = purchases[2].name
        /\ \A p \in PurchaseIds : purchases[p].error \notin {"InsufficientFunds", "ServerError"})
       => \E p \in PurchaseIds :
             /\ purchases[p].pc = "resolved"
             /\ \A q \in PurchaseIds \ {p} :
                   purchases[q].pc = "rejected" /\ purchases[q].error = "NameTaken"

\* Witness of C7: two purchases of one name were in flight together, one
\* succeeded and the other failed with NameTaken.
C7_Witness ==
    /\ purchases[1].concurrent /\ purchases[2].concurrent
    /\ purchases[1].name = purchases[2].name
    /\ purchases[2].pc = "resolved"
    /\ purchases[1].pc = "rejected" /\ purchases[1].error = "NameTaken"

\* C8: the step that completes a successful purchaseName lowers the owner's
\* balance by exactly getNameCost, the amount the new Name Record carries as
\* unpaid; the step that fails a purchase changes no balance.
C8_PurchaseDebitsCost ==
    [][\A p \in PurchaseIds :
         /\ (purchases[p].pc = "create" /\ purchases'[p].pc = "resolved")
              => LET debit == BalanceOf(addressRows, purchases[p].owner)
                                - BalanceOf(addressRows', purchases[p].owner)
                 IN /\ debit = getNameCost
                    /\ purchases'[p].row \in 1..Len(nameRows')
                    /\ nameRows'[purchases'[p].row].name = purchases[p].name
                    /\ nameRows'[purchases'[p].row].unpaid = debit
         /\ (purchases[p].pc = "create" /\ purchases'[p].pc = "rejected")
              => addressRows' = addressRows
      ]_vars

\* Witness of C8: one purchase has succeeded and another has failed.
C8_Witness ==
    /\ \E p \in PurchaseIds :
          /\ purchases[p].pc = "resolved"
          /\ nameRows[purchases[p].row].unpaid = getNameCost
    /\ \E p \in PurchaseIds : purchases[p].pc = "rejected"

----------------------------------------------------------------------------
(* Session properties *)

\* The sockets that were registered with token t.
Registrations(t) == {ws \in Sockets : sockets[ws].token = t}

\* C1: useToken succeeds at most once per token; once it has succeeded every
\* later useToken of that token fails with TokenNotFound, and no two
\* connection attempts with one token are both registered.
C1_ConsumeAtMostOnce ==
    \A t \in TokenIds :
        /\ useCount[t] <= 1
        /\ Cardinality(Registrations(t)) <= 1
        /\ (lastConsume.token = t /\ lastConsume.before >= 1)
              => lastConsume.result = "TokenNotFound" /\ ~lastConsume.registered

\* Witness of C1: a token was consumed and registered once, and a later
\* connection attempt with it has failed with TokenNotFound.
C1_Witness ==
    /\ lastConsume.token # 0
    /\ lastConsume.before = 1
    /\ lastConsume.result = "TokenNotFound"
    /\ useCount[lastConsume.token] = 1
    /\ Cardinality(Registrations(lastConsume.token)) = 1

\* A useToken call on a token that was issued more than TokenTTL seconds
\* before and had not been consumed.
LateConsume ==
    /\ lastConsume.token # 0
    /\ lastConsume.late
    /\ lastConsume.before = 0

\* C2 as stated: a token not consumed within 30 seconds of its issuance
\* fails useToken with TokenExpired, swept or not, and registers nothing.
C2_LateConsumeIsTokenExpired ==
    LateConsume => lastConsume.result = "TokenExpired" /\ ~lastConsume.registered

\* C2 as amended: a token not consumed within 30 seconds of its issuance
\* fails useToken, with TokenExpired while its entry is still stored and
\* with TokenNotFound once a sweep has removed the entry, and no connection
\* is registered from it.
C2_LateConsumeFails ==
    LateConsume
      => /\ lastConsume.result = IF lastConsume.stored THEN "TokenExpired" ELSE "TokenNotFound"
         /\ ~lastConsume.registered
         /\ Registrations(lastConsume.token) = {}

\* Witness of C2: an unswept token was used after its 30 seconds and the
\* call failed with TokenExpired.
C2_Witness ==
    /\ LateConsume
    /\ lastConsume.stored
    /\ lastConsume.result = "TokenExpired"

----------------------------------------------------------------------------
(* Broadcast properties *)

\* C10: a connection subscribed to exactly {ownTransactions} and
\* authenticated as X is sent a broadcast transaction event if and only if X
\* is its sender or its recipient.
C10_OwnTransactionsFilter ==
    [][LET ev == delivered'.event
       IN (ev.event = "transaction" /\ Broadcast(ev))
          => \A e \in websockets :
                (e.subs = {"ownTransactions"} /\ sockets[e.ws].readyState = "OPEN")
                => (e.ws \in delivered'.to <=> (ev.from = e.address \/ ev.to = e.address))
      ]_vars

\* Witness of C10: a connection subscribed to exactly {ownTransactions} was
\* sent a transaction of which it is the recipient and not the sender.
C10_Witness ==
    \E e \in websockets :
        /\ e.subs = {"ownTransactions"}
        /\ delivered.event.event = "transaction"
        /\ delivered.event.to = e.address
        /\ delivered.event.from # e.address
        /\ e.ws \in delivered.to
        /\ sockets[e.ws].first = "hello"

----------------------------------------------------------------------------
(* Connection attempt properties *)

\* The step in which the route handler of socket ws runs useToken and the
\* call throws.
ConsumeFails(ws) ==
    /\ sockets[ws].readyState = "NEW"
    /\ sockets'[ws].readyState # "NEW"
    /\ lastConsume'.result # "ok"

\* What a failed connection attempt leaves alone: the registry, every other
\* token, and the socket never gets a hello.
FailedAttemptChangesNothing(ws) ==
    /\ websockets' = websockets
    /\ \A t \in TokenIds \ {lastConsume'.token} :
          validConnectionTokens'[t] = validConnectionTokens[t]
    /\ sockets'[ws].token = 0
    /\ sockets'[ws].hello = 0
    /\ sockets'[ws].pc = "done"

\* C11 as stated: when useToken fails in a connection attempt the same error
\* is sent to the client, no entry is registered, the registry and the other
\* tokens are unchanged and no hello is sent.
C11_FailedConsumeSendsError ==
    [][\A ws \in Sockets :
         ConsumeFails(ws)
         => /\ sockets'[ws].error = lastConsume'.result
            /\ sockets'[ws].first = "error"
            /\ FailedAttemptChangesNothing(ws)
      ]_vars

\* C11 as amended: when useToken fails in a connection attempt the same
\* error is sent to the client if its socket is still open (nothing is sent
\* on a socket that no longer is), no entry is registered, the registry and
\* the other tokens are unchanged and no hello is ever sent on that socket.
C11_FailedConsumeRegistersNothing ==
    [][\A ws \in Sockets :
         /\ ConsumeFails(ws)
            => /\ lastConsume'.open
                  => sockets'[ws].error = lastConsume'.result /\ sockets'[ws].first = "error"
               /\ ~lastConsume'.open
                  => sockets'[ws].error = "" /\ sockets'[ws].first = ""
               /\ FailedAttemptChangesNothing(ws)
         /\ (sockets[ws].pc = "done" /\ sockets[ws].token = 0)
            => sockets'[ws].hello = 0 /\ sockets'[ws].token = 0
      ]_vars

\* Witness of C11: a connection attempt with an expired token on an open
\* socket was answered with TokenExpired while another connection stays
\* registered.
C11_Witness ==
    \E ws \in Sockets :
        /\ sockets[ws].pc = "done"
        /\ sockets[ws].token = 0
        /\ sockets[ws].error = "TokenExpired"
        /\ sockets[ws].first = "error"
        /\ lastConsume.result = "TokenExpired"
        /\ lastConsume.open
        /\ websockets # {}

----------------------------------------------------------------------------
(* Handshake properties *)

\* C12: the handshake issues a token bound to an address only when the
\* supplied privatekey was verified; when verification fails the response is
\* the auth_failed error body and no token is created; without a privatekey
\* a guest token with no privatekey is issued; a successful response is
\* { ok: true, url, expires: 30 }.
C12_HandshakeIssuesVerifiedTokens ==
    [][\A privatekey \in Keys \cup {""}, authed \in BOOLEAN, cc \in CcValues :
         StartSession(privatekey, authed, cc)
         => IF privatekey # "" /\ ~authed
            THEN /\ response'.body = [ok |-> FALSE, error |-> "auth_failed"]
                 /\ validConnectionTokens' = validConnectionTokens
                 /\ issued' = issued
            ELSE LET entry == validConnectionTokens'[issued'] IN
                 /\ issued' = issued + 1
                 /\ ~validConnectionTokens[issued'].stored
                 /\ entry.stored
                 /\ entry.privatekey = privatekey
                 /\ entry.address = IF privatekey = "" THEN "guest"
                                    ELSE makeV2Address(privatekey)
                 /\ \A t \in TokenIds \ {issued'} :
                       validConnectionTokens'[t] = validConnectionTokens[t]
                 /\ response' = [status |-> 200,
                                 body |-> [ok |-> TRUE, url |-> issued', expires |-> 30]]
      ]_vars

\* Witness of C12: a token bound to a verified address is in the store, no
\* guest token is, and a later handshake was refused with auth_failed.
C12_Witness ==
    /\ issued = 1
    /\ \E t \in TokenIds : /\ validConnectionTokens[t].stored
                           /\ validConnectionTokens[t].address = "ka"
                           /\ validConnectionTokens[t].privatekey = "pk1"
    /\ response.status # 0
    /\ response.body = [ok |-> FALSE, error |-> "auth_failed"]

----------------------------------------------------------------------------
(* Error serialisation properties *)

\* The body the serialiser handed on, whichever entry point was used.
DeliveredBody ==
    IF errorOut.via = "errorToJSON" THEN errorOut.result ELSE errorOut.result.body

\* C13: for every KristError, with or without a message and with any info
\* map, errorToJSON returns normally the body { ok: false, error: kind,
\* ...info }, and sendErrorToRes and sendErrorToWS deliver exactly that body.
C13_KristErrorSerialised ==
    (errorOut.via # "none" /\ errorIn.krist)
    => /\ ~Threw(errorOut.result)
       /\ DeliveredBody = errorIn.info @@ [ok |-> FALSE, error |-> errorIn.errorString]

\* C14: for every error that is not a KristError the body delivered is
\* exactly { ok: false, error: "server_error" }, whatever message and fields
\* the error carries, so two such errors cannot be told apart by the client.
C14_ServerErrorLeaksNothing ==
    (errorOut.via # "none" /\ ~errorIn.krist)
    => /\ ~Threw(errorOut.result)
       /\ DeliveredBody = [ok |-> FALSE, error |-> "server_error"]

\* Witness of C14: an error of another class carrying a message, an info map
\* and an errorString was delivered to a websocket as the bare server_error.
C14_Witness ==
    /\ errorOut.via = "ws"
    /\ ~errorIn.krist
    /\ errorIn.message = "ECONNREFUSED 127.0.0.1:3306"
    /\ errorIn.info # EmptyInfo
    /\ errorIn.errorString = "name_taken"
    /\ errorOut.result.body = [ok |-> FALSE, error |-> "server_error"]

----------------------------------------------------------------------------
(* Broadcast isolation properties *)

\* The step in which the create of purchase p inserted its row.
NameCreated(p) ==
    /\ purchases[p].pc = "create"
    /\ purchases'[p].pc # "create"
    /\ Len(nameRows') = Len(nameRows) + 1

\* C15: when createName broadcasts its name event, a failed write to one
\* connection neither keeps the event from any other subscribed connection
\* whose socket is open nor makes createName fail: it resolves with the
\* record it created.
C15_FailedWriteIsIsolated ==
    [][\A p \in PurchaseIds :
         NameCreated(p)
         => /\ purchases'[p].pc = "resolved"
            /\ purchases'[p].row = Len(nameRows')
            /\ nameRows'[purchases'[p].row].name = purchases[p].name
            /\ delivered'.event = [event |-> "name", owner |-> purchases[p].owner]
            /\ \A e \in websockets :
                  (Subscribed(e, delivered'.event) /\ sockets[e.ws].readyState = "OPEN")
                  => /\ e.ws \in delivered'.to
                     /\ sockets'[e.ws] = Sent(sockets[e.ws], "event")
      ]_vars

\* Witness of C15: a name event was written to one connection while the
\* write to another failed, and the purchase resolved.
C15_Witness ==
    /\ delivered.event.event = "name"
    /\ delivered.to # {}
    /\ delivered.failed # {}
    /\ \E p \in PurchaseIds : purchases[p].pc = "resolved" /\ purchases[p].row = Len(nameRows)
    /\ \E ws \in delivered.to : sockets[ws].first \in {"event", "hello"}

----------------------------------------------------------------------------
(* Transfer stage and accounting properties *)

BalanceOps == {"decrement", "increment", "credit"}

\* The operations of call c that have not fulfilled.
Unfulfilled(c) == calls[c].pending \cup calls[c].failed

\* C16: each transfer passes Validated, Applied, Recorded, Notified in that
\* order: its transaction record exists only after its balance mutation has
\* been applied, and its webhook or broadcast notification is emitted only
\* after both the balance mutation and the record creation have succeeded.
C16_StagesInOrder ==
    \A c \in CallIds :
        /\ TransactionsOf(c) # {} => Unfulfilled(c) \cap BalanceOps = {}
        /\ (WebhooksOf(c) # {} \/ EventsOf(c) # {}) => Unfulfilled(c) = {}

\* C17: a successful transfer of v increases the sender's totalout by v and
\* the recipient's totalin by v, leaves the sender's totalin and an existing
\* recipient's totalout unchanged, and creates a missing recipient with
\* balance = totalin = v and totalout = 0.
C17_TotalsFollowTransfer ==
    [][\A c \in CallIds :
         (/\ Resolves(c)
          /\ ~calls'[c].overlapped
          /\ SenderAddress(c) # calls[c].to)
         => LET A == calls[c].sender
                v == calls[c].amount
                pre == calls[c].pre
                B == GetAddress(pre, calls[c].to)
                B2 == GetAddress(addressRows', calls[c].to)
            IN /\ addressRows'[A].totalout = pre[A].totalout + v
               /\ addressRows'[A].totalin = pre[A].totalin
               /\ IF B # 0
                  THEN /\ addressRows'[B].totalin = pre[B].totalin + v
                       /\ addressRows'[B].totalout = pre[B].totalout
                  ELSE /\ B2 # 0
                       /\ addressRows'[B2].balance = v
                       /\ addressRows'[B2].totalin = v
                       /\ addressRows'[B2].totalout = 0
      ]_vars

\* The rows of the account with this address.
RowsOf(address) == {i \in 1..Len(addressRows) : addressRows[i].address = address}

\* C20: after any interleaving of concurrent transfers to one recipient that
\* did not exist before, exactly one account exists for its address and its
\* balance is the sum of the amounts of the successful transfers.
C20_OneAccountPerRecipient ==
    \A a \in Addresses :
        (\A c \in CallIds :
            /\ calls[c].pc = "resolved"
            /\ calls[c].to = a
            /\ SenderAddress(c) # a
            /\ GetAddress(calls[c].pre, a) = 0)
        => /\ Cardinality(RowsOf(a)) = 1
           /\ \A i \in RowsOf(a) : addressRows[i].balance = calls[1].amount + calls[2].amount

----------------------------------------------------------------------------
(* Deregistration and first-message properties *)

\* The step in which the catch block of the route, finding the socket of ws
\* no longer open, calls removeWebsocket(ws, token).
CatchRemoves(ws) ==
    /\ sockets[ws].pc \in {"none", "motd"}
    /\ sockets'[ws].pc = "done"
    /\ sockets'[ws].readyState = "CLOSED"
    /\ sockets'[ws].error = ""

\* C18: removeWebsocket is idempotent: called for a handle that was never
\* registered or whose entry is already removed it changes nothing and
\* raises no error, and it never touches the entry of another handle.
C18_DeregisterIdempotent ==
    [][\A ws \in Sockets :
         CatchRemoves(ws)
         => /\ (~\E e \in websockets : e.ws = ws) => websockets' = websockets
            /\ \A e \in websockets : e.ws # ws => e \in websockets'
            /\ websockets' \subseteq websockets
            /\ ~\E e \in websockets' : e.ws = ws
      ]_vars

\* Witness of C18: removeWebsocket ran for a handle that was never
\* registered while another connection, still awaiting its MOTD, keeps its
\* entry.
C18_Witness ==
    \E ws, other \in Sockets :
        /\ sockets[ws].pc = "done" /\ sockets[ws].readyState = "CLOSED"
        /\ sockets[ws].error = "" /\ sockets[ws].token = 0
        /\ sockets[other].pc = "motd" /\ sockets[other].readyState = "OPEN"
        /\ \E e \in websockets : e.ws = other

\* C19: on every registered connection hello is the first message
\* delivered: no broadcast event and no keepalive reaches the socket before
\* its hello.
C19_HelloFirst ==
    \A ws \in Sockets :
        sockets[ws].token # 0 => sockets[ws].first \notin {"event", "keepalive"}

----------------------------------------------------------------------------
(* Error status properties *)

\* error.statusCode || 500
OwnStatus(error) == IF error.statusCode # 0 THEN error.statusCode ELSE 500

\* C21: sendErrorToRes responds with the error's own statusCode (500 when it
\* has none) when the request carries no `cc` parameter, and with status 200
\* only when the `cc` parameter is present.
C21_StatusFollowsCc ==
    (errorOut.via = "res" /\ ~Threw(errorOut.result))
    => /\ errorOut.cc = Undefined => errorOut.result.status = OwnStatus(errorIn)
       /\ errorOut.result.status = 200 => errorOut.cc # Undefined

====
